---- MODULE Spec2Model ----
(***************************************************************************)
(* The audit bot of src/main.py: the users and audit_requests tables, the  *)
(* redis list audit_queue, the aiogram handlers (each a coroutine that     *)
(* other coroutines interleave with at every await) and the worker         *)
(* coroutine process_audit_queue.                                          *)
(*                                                                         *)
(* A handler works on the objects its own SQLAlchemy session loaded: it    *)
(* reads a row once, changes the Python attribute, and commit() writes the *)
(* attribute's value back (UPDATE ... SET available_audits = <value>).     *)
(***************************************************************************)
EXTENDS Integers, Sequences, FiniteSets, Bags, TLC

\* ------------------------------------------------------------------ bounds
\* Handler invocations (updates delivered by Telegram) in one behaviour.
MaxHandlers == 2
\* Largest balance a user row holds when the process starts.
MaxInit == 1
\* Handler invocations of a behaviour in which they come one at a time.
MaxSequence == 4

\* Telegram users (message.from_user.id).
Users == {"u1", "u2"}

\* ------------------------------------------------------------- conversions
DigitChar == <<"0", "1", "2", "3", "4", "5", "6", "7", "8", "9">>

IsDigit(c) == \E d \in 1..10 : DigitChar[d] = c

DigitVal(c) == (CHOOSE d \in 1..10 : DigitChar[d] = c) - 1

\* str(n) of a non-negative int: what redis stores for rpush(key, id).
RECURSIVE py_str(_)
py_str(n) ==
    IF n < 10 THEN <<DigitChar[n + 1]>>
    ELSE py_str(n \div 10) \o <<DigitChar[(n % 10) + 1]>>

RECURSIVE DigitsVal(_)
DigitsVal(s) ==
    IF Len(s) = 0 THEN 0
    ELSE 10 * DigitsVal(SubSeq(s, 1, Len(s) - 1)) + DigitVal(s[Len(s)])

\* int(s): an optional sign and at least one digit, else ValueError.
py_int(s) ==
    LET signed == Len(s) > 0 /\ s[1] \in {"-", "+"}
        body   == IF signed THEN Tail(s) ELSE s
        valid  == Len(body) > 0 /\ \A i \in 1..Len(body) : IsDigit(body[i])
    IN  IF ~valid THEN [ok |-> FALSE, val |-> 0]
        ELSE [ok |-> TRUE,
              val |-> IF signed /\ s[1] = "-" THEN 0 - DigitsVal(body)
                      ELSE DigitsVal(body)]

LowerChar(c) ==
    CASE c = "S" -> "s"
      [] c = "O" -> "o"
      [] c = "L" -> "l"
      [] OTHER   -> c

\* str.lower()
lower(s) == [i \in 1..Len(s) |-> LowerChar(s[i])]

\* os.path.splitext(p)[1]: from the last dot on, unless only dots precede it.
splitext(p) ==
    LET dots == {i \in 1..Len(p) : p[i] = "."}
        last == CHOOSE i \in dots : \A j \in dots : j <= i
    IN  IF dots = {} THEN <<>>
        ELSE IF \A j \in 1..(last - 1) : p[j] = "." THEN <<>>
        ELSE SubSeq(p, last, Len(p))

\* callback_query.data.split(":") of "check_payment:" + rest, as the number of
\* parts and the second part.
RECURSIVE Colons(_)
Colons(s) ==
    IF Len(s) = 0 THEN 0
    ELSE (IF s[1] = ":" THEN 1 ELSE 0) + Colons(Tail(s))

\* -------------------------------------------------------------- the inputs
\* document.file_name of an /audit message.
FileNames ==
    { <<"a", ".", "s", "o", "l">>, <<"a", ".", "S", "O", "L">>,
      <<"a", ".", "t", "x", "t">>, <<".", "s", "o", "l">>, <<"a">> }

\* message.get_args() of a /buy message.
BuyArgs == { <<>>, <<"2">>, <<"0">>, <<"-", "1">>, <<"x">> }

\* What follows "check_payment:" in callback_query.data.  Telegram delivers
\* whatever data the client sent, not only the data of a button /buy made.
PaymentData ==
    { <<"1">>, <<"2">>, <<"0">>, <<"-", "1">>, <<"x">>, <<>>, <<"1", ":", "1">> }

\* ------------------------------------------------------------------- state
VARIABLES
    users,           \* table users: telegram id -> [exists, available_audits]
    audit_requests,  \* table audit_requests: id (= index) -> [user_id, status]
    audit_queue,     \* the redis list QUEUE_KEY: str(id), oldest first
    tasks,           \* bag of handler coroutines suspended at an await
    nhandlers,       \* handlers started so far
    limit,           \* how many updates Telegram delivers in this behaviour
    started,         \* on_startup has run and polling delivers updates
    workers,         \* process_audit_queue coroutines running
    wpc,             \* the worker's position
    wid,             \* the worker's audit_request_id (0: none)
    wfinal,          \* the worker's report_final_path: "pdf" or "html"
    files,           \* request id -> temporary files on disk
    sent,            \* request id -> messages the worker sent for it
    pushed,          \* history: ids in the order rpush stored them
    popped,          \* history: ids in the order lpop returned them
    processed,       \* history: ids in the order they were set to processing
    initial,         \* history: the balances at process start
    credited,        \* history: user -> free grants and payments committed, the payments' sum
    debits           \* history: user -> committed /audit debits

vars == <<users, audit_requests, audit_queue, tasks, nhandlers, limit, started,
          workers, wpc, wid, wfinal, files, sent, pushed, popped, processed,
          initial, credited, debits>>

\* What no handler touches.
worker == <<started, workers, wpc, wid, wfinal, files, sent, popped, processed,
            initial, limit>>

\* Request ids: those of this run's submissions and one stored before it.
Ids == 1..(MaxHandlers + 1)

NoUser == [exists |-> FALSE, available_audits |-> 0]

User(n) == [exists |-> TRUE, available_audits |-> n]

AuditRequest(u) == [user_id |-> u, status |-> "queued"]

Task(kind, u, pc, loc, q, rid, msg) ==
    [kind |-> kind, u |-> u, pc |-> pc, loc |-> loc, q |-> q, rid |-> rid,
     msg |-> msg]

Running == BagToSet(tasks)

Spawn(t) ==
    /\ started
    /\ nhandlers < limit
    /\ nhandlers' = nhandlers + 1
    /\ tasks' = tasks (+) SetToBag({t})

Move(t, t2) == tasks' = (tasks (-) SetToBag({t})) (+) SetToBag({t2})

Exit(t) == tasks' = tasks (-) SetToBag({t})

Reply(t, msg) == [t EXCEPT !.pc = "reply", !.msg = msg]

TypeOK ==
    /\ users \in [Users -> [exists : BOOLEAN, available_audits : Int]]
    /\ audit_requests \in Seq([user_id : Users,
                               status : {"queued", "processing", "completed", "failed"}])
    /\ nhandlers \in 0..limit
    /\ workers \in 0..1

Init ==
    /\ users \in [Users -> {NoUser} \cup {User(n) : n \in 0..MaxInit}]
    /\ audit_requests = <<>>
    /\ audit_queue = <<>>
    /\ tasks = EmptyBag
    /\ nhandlers = 0
    /\ limit = MaxHandlers
    /\ started = FALSE
    /\ workers = 0
    /\ wpc = "none"
    /\ wid = 0
    /\ wfinal = "none"
    /\ files = [i \in Ids |-> {}]
    /\ sent = [i \in Ids |-> {}]
    /\ pushed = <<>>
    /\ popped = <<>>
    /\ processed = <<>>
    /\ initial = users
    /\ credited = [u \in Users |-> [free |-> 0, paid |-> 0, sum |-> 0]]
    /\ debits = [u \in Users |-> 0]

\* executor.start_polling(dp, on_startup=on_startup): on_startup awaits init_db()
\* and returns; it creates no task for process_audit_queue.
on_startup ==
    /\ ~started
    /\ started' = TRUE
    /\ UNCHANGED <<users, audit_requests, audit_queue, tasks, nhandlers, limit,
                   workers, wpc, wid, wfinal, files, sent, pushed, popped,
                   processed, initial, credited, debits>>

\* ---------------------------------------------------------------- handlers
\* Each handler action runs one coroutine from an await's return to its next
\* await.  The awaited replies (message.reply, callback_query.answer,
\* bot.send_message of a handler) change nothing here: a handler that has only
\* replies left is at pc "reply" with the reply's kind in msg.

SolExt == <<".", "s", "o", "l">>

\* The comparison without .lower().
BadExtension_cs(file_name) == splitext(file_name) # SolExt

\* cmd_audit: file_extension != ".sol"
BadExtension(file_name) == lower(splitext(file_name)) # SolExt

\* The credit check with < for <=: a balance of 0 passes it.
NoCredits_strict(v) == v < 0

\* cmd_audit: user.available_audits <= 0
NoCredits(v) == v <= 0

\* cmd_free: user.available_audits == 0
FreeEligible(v) == v = 0

\* The free grant of cmd_free.
FreeAudits == 2

\* What a handler does with the user get_or_create_user returned, whose
\* available_audits attribute is v, up to the handler's next await.
AfterUser(t, v) ==
    CASE t.kind = "start"  -> Reply(t, "welcome")
      [] t.kind = "status" -> [Reply(t, "status") EXCEPT !.loc = v]
      [] t.kind = "free"   ->
            IF FreeEligible(v) THEN [t EXCEPT !.pc = "commit", !.loc = v + FreeAudits]
            ELSE Reply(t, "already_free")
      [] t.kind = "audit"  ->
            IF NoCredits(v) THEN Reply(t, "no_credits")
            ELSE [t EXCEPT !.pc = "commit", !.loc = v - 1]

cmd_start(u) ==
    /\ Spawn(Task("start", u, "select", 0, 0, 0, ""))
    /\ UNCHANGED <<users, audit_requests, audit_queue, pushed, credited, debits, worker>>

cmd_status(u) ==
    /\ Spawn(Task("status", u, "select", 0, 0, 0, ""))
    /\ UNCHANGED <<users, audit_requests, audit_queue, pushed, credited, debits, worker>>

cmd_free(u) ==
    /\ Spawn(Task("free", u, "select", 0, 0, 0, ""))
    /\ UNCHANGED <<users, audit_requests, audit_queue, pushed, credited, debits, worker>>

\* /buy: validation and a reply (the keyboard whose button carries
\* "check_payment:<quantity>"); no session is opened.
cmd_buy(u, args) ==
    /\ LET n == py_int(args)
       IN  Spawn(IF args = <<>> THEN Task("buy", u, "reply", 0, 0, 0, "buy_usage")
                 ELSE IF ~n.ok \/ n.val <= 0
                      THEN Task("buy", u, "reply", 0, 0, 0, "buy_invalid")
                 ELSE Task("buy", u, "reply", 0, n.val, 0, "buy_keyboard"))
    /\ UNCHANGED <<users, audit_requests, audit_queue, pushed, credited, debits, worker>>

\* The try block of callback_check_payment: two parts and an int, any int.
ParsePayment(data) ==
    IF Colons(data) # 0 THEN [ok |-> FALSE, val |-> 0] ELSE py_int(data)

callback_check_payment(u, data) ==
    /\ LET n == ParsePayment(data)
       IN  Spawn(IF ~n.ok THEN Task("payment", u, "reply", 0, 0, 0, "bad_data")
                 ELSE Task("payment", u, "select", 0, n.val, 0, ""))
    /\ UNCHANGED <<users, audit_requests, audit_queue, pushed, credited, debits, worker>>

cmd_audit(u, file_name) ==
    /\ Spawn(IF BadExtension(file_name)
             THEN Task("audit", u, "reply", 0, 0, 0, "invalid_extension")
             ELSE Task("audit", u, "select", 0, 0, 0, ""))
    /\ UNCHANGED <<users, audit_requests, audit_queue, pushed, credited, debits, worker>>

\* get_or_create_user, the select returns: the row as committed now.
get_or_create_user(t) ==
    /\ t.pc = "select"
    /\ t.kind \in {"start", "status", "free", "audit"}
    /\ IF users[t.u].exists
       THEN Move(t, AfterUser(t, users[t.u].available_audits))
       ELSE Move(t, [t EXCEPT !.pc = "create"])
    /\ UNCHANGED <<users, audit_requests, audit_queue, nhandlers, pushed,
                   credited, debits, worker>>

\* get_or_create_user, the commit of the new row returns: telegram_id is
\* unique, so the INSERT raises when a concurrent handler created the row.
get_or_create_user_commit(t) ==
    /\ t.pc = "create"
    /\ IF users[t.u].exists
       THEN Exit(t) /\ UNCHANGED users
       ELSE /\ users' = [users EXCEPT ![t.u] = User(0)]
            /\ Move(t, AfterUser(t, 0))
    /\ UNCHANGED <<audit_requests, audit_queue, nhandlers, pushed, credited,
                   debits, worker>>

\* cmd_free: user.available_audits += 2; await session.commit()
cmd_free_commit(t) ==
    /\ t.kind = "free" /\ t.pc = "commit"
    /\ users' = [users EXCEPT ![t.u].available_audits = t.loc]
    /\ credited' = [credited EXCEPT ![t.u].free = @ + 1]
    /\ Move(t, Reply(t, "free_granted"))
    /\ UNCHANGED <<audit_requests, audit_queue, nhandlers, pushed, debits, worker>>

\* callback_check_payment, the select returns.
callback_check_payment_select(t) ==
    /\ t.kind = "payment" /\ t.pc = "select"
    /\ IF users[t.u].exists
       THEN Move(t, [t EXCEPT !.pc = "commit",
                              !.loc = users[t.u].available_audits + t.q])
       ELSE Move(t, Reply(t, "user_not_found"))
    /\ UNCHANGED <<users, audit_requests, audit_queue, nhandlers, pushed,
                   credited, debits, worker>>

\* callback_check_payment: user.available_audits += quantity; commit
callback_check_payment_commit(t) ==
    /\ t.kind = "payment" /\ t.pc = "commit"
    /\ users' = [users EXCEPT ![t.u].available_audits = t.loc]
    /\ credited' = [credited EXCEPT ![t.u].paid = @ + 1, ![t.u].sum = @ + t.q]
    /\ Move(t, Reply(t, "payment_ok"))
    /\ UNCHANGED <<audit_requests, audit_queue, nhandlers, pushed, debits, worker>>

\* cmd_audit: user.available_audits -= 1; session.add(audit_request); commit.
\* One transaction writes the balance and inserts the request, whose id the
\* table assigns.
cmd_audit_commit(t) ==
    /\ t.kind = "audit" /\ t.pc = "commit"
    /\ users' = [users EXCEPT ![t.u].available_audits = t.loc]
    /\ audit_requests' = Append(audit_requests, AuditRequest(t.u))
    /\ debits' = [debits EXCEPT ![t.u] = @ + 1]
    /\ Move(t, [t EXCEPT !.pc = "rpush", !.rid = Len(audit_requests) + 1])
    /\ UNCHANGED <<audit_queue, nhandlers, pushed, credited, worker>>

\* The push done twice.
rpush_twice(queue, id) == Append(Append(queue, py_str(id)), py_str(id))

\* lpush for rpush: the id goes to the head.
rpush_front(queue, id) == <<py_str(id)>> \o queue

\* rpush(QUEUE_KEY, id): appends str(id) at the tail.
rpush(queue, id) == Append(queue, py_str(id))

\* cmd_audit: await redis_client.rpush(...) returns or raises; llen and the
\* reply follow.
cmd_audit_rpush(t) ==
    /\ t.kind = "audit" /\ t.pc = "rpush"
    /\ \/ /\ audit_queue' = rpush(audit_queue, t.rid)
          /\ pushed' = Append(pushed, t.rid)
          /\ Move(t, Reply(t, "queued"))
       \/ /\ Exit(t)
          /\ UNCHANGED <<audit_queue, pushed>>
    /\ UNCHANGED <<users, audit_requests, nhandlers, credited, debits, worker>>

\* The handler's last awaits (its replies) return; the coroutine ends.
reply(t) ==
    /\ t.pc = "reply"
    /\ Exit(t)
    /\ UNCHANGED <<users, audit_requests, audit_queue, nhandlers, pushed,
                   credited, debits, worker>>

Handlers ==
    \/ \E u \in Users : cmd_start(u)
    \/ \E u \in Users : cmd_status(u)
    \/ \E u \in Users : cmd_free(u)
    \/ \E u \in Users, args \in BuyArgs : cmd_buy(u, args)
    \/ \E u \in Users, data \in PaymentData : callback_check_payment(u, data)
    \/ \E u \in Users, f \in FileNames : cmd_audit(u, f)
    \/ \E t \in Running : get_or_create_user(t)
    \/ \E t \in Running : get_or_create_user_commit(t)
    \/ \E t \in Running : cmd_free_commit(t)
    \/ \E t \in Running : callback_check_payment_select(t)
    \/ \E t \in Running : callback_check_payment_commit(t)
    \/ \E t \in Running : cmd_audit_commit(t)
    \/ \E t \in Running : cmd_audit_rpush(t)
    \/ \E t \in Running : reply(t)

\* The program as src/main.py starts it: no worker coroutine exists.
Next == on_startup \/ Handlers

Spec == Init /\ [][Next]_vars

\* ------------------------------------------------------------------ worker
\* process_audit_queue (defined at line 369 and again, word for word, at line
\* 615).  wpc names the await the coroutine is suspended at; an action
\* is that await returning or raising and the code up to the next await.  An
\* exception outside the try block, or inside the except block, leaves the
\* while loop and ends the coroutine.

\* What no worker step touches.
front == <<users, tasks, nhandlers, limit, started, pushed, initial, credited,
           debits>>

SetStatus(id, status) ==
    audit_requests' = [audit_requests EXCEPT ![id].status = status]

Send(id, what) == sent' = [sent EXCEPT ![id] = @ \cup {what}]

\* The coroutine ends with the exception.
Dies ==
    /\ workers' = workers - 1
    /\ wpc' = "dead"
    /\ UNCHANGED <<wid, wfinal>>

\* Back to the top of the while loop: await redis_client.lpop(QUEUE_KEY).
Loop ==
    /\ wpc' = "lpop"
    /\ wid' = 0
    /\ wfinal' = "none"
    /\ UNCHANGED workers

\* The exception ignored: the job is stored completed all the same.
Except_complete ==
    /\ wpc' = "commit_completed"
    /\ UNCHANGED <<workers, wid, wfinal>>

\* The exception swallowed: the loop goes on with the next id.
Except_swallow == Loop

\* The except block: audit_request.status = "failed"; await session.commit()
Except ==
    /\ wpc' = "commit_failed"
    /\ UNCHANGED <<workers, wid, wfinal>>

Goto(pc) ==
    /\ wpc' = pc
    /\ UNCHANGED <<workers, wid, wfinal>>

\* The guard without the status check.
DequeueGuard_exists(id) == id \in DOMAIN audit_requests

\* if audit_request and audit_request.status == "queued"
DequeueGuard(id) ==
    id \in DOMAIN audit_requests /\ audit_requests[id].status = "queued"

\* The three os.remove calls, the first k of which succeed before one raises;
\* removing report_final_path when it is the html already removed raises too.
Removed(k, final) ==
    IF k = 0 THEN {}
    ELSE IF k = 1 THEN {"sol"}
    ELSE IF k = 2 THEN {"sol", "html"}
    ELSE {"sol", "html", final}

\* bot.send_message of the start message raises: it is inside the try block.
StartFailed == Except

\* The pdf path whatever write_pdf did.
FinalPath_pdf(rendered) == "pdf"

\* report_final_path: the pdf, or in the except of write_pdf the html report.
FinalPath(rendered) == IF rendered THEN "pdf" ELSE "html"

\* A failed removal handled like any other exception of the job.
AfterCleanup_raise(k) == IF k < 3 THEN Except ELSE Goto("notify_success")

\* The inner try/except around the os.remove calls: whatever they did (k of
\* them succeeded), the success message is awaited next.
AfterCleanup(k) == Goto("notify_success")

\* A refund: the owner's balance put back up by one.
ExceptLedger_refund(id) ==
    users' = [users EXCEPT ![audit_requests[id].user_id].available_audits = @ + 1]

\* The except block writes nothing but the status: no balance changes.
ExceptLedger(id) == UNCHANGED users

worker_lpop ==
    /\ wpc = "lpop"
    /\ \/ /\ audit_queue = <<>>
          /\ Goto("sleep")
          /\ UNCHANGED <<audit_queue, popped>>
       \/ /\ audit_queue # <<>>
          /\ audit_queue' = Tail(audit_queue)
          /\ popped' = Append(popped, py_int(Head(audit_queue)).val)
          /\ wpc' = "get_request"
          /\ wid' = py_int(Head(audit_queue)).val
          /\ UNCHANGED <<workers, wfinal>>
       \/ /\ Dies
          /\ UNCHANGED <<audit_queue, popped>>
    /\ UNCHANGED <<audit_requests, files, sent, processed, front>>

\* await asyncio.sleep(5)
worker_sleep ==
    /\ wpc = "sleep"
    /\ Goto("lpop")
    /\ UNCHANGED <<audit_requests, audit_queue, files, sent, popped, processed, front>>

\* await session.get(AuditRequest, int(audit_request_id))
worker_get_request ==
    /\ wpc = "get_request"
    /\ \/ IF DequeueGuard(wid) THEN Goto("commit_processing") ELSE Loop
       \/ Dies
    /\ UNCHANGED <<audit_requests, audit_queue, files, sent, popped, processed, front>>

\* audit_request.status = "processing"; await session.commit()
worker_commit_processing ==
    /\ wpc = "commit_processing"
    /\ \/ /\ SetStatus(wid, "processing")
          /\ processed' = Append(processed, wid)
          /\ Goto("get_user")
       \/ /\ Dies
          /\ UNCHANGED <<audit_requests, processed>>
    /\ UNCHANGED <<audit_queue, files, sent, popped, front>>

\* user = await session.get(User, audit_request.user_id), before the try
worker_get_user ==
    /\ wpc = "get_user"
    /\ \/ Goto("notify_start")
       \/ Dies
    /\ UNCHANGED <<audit_requests, audit_queue, files, sent, popped, processed, front>>

\* try: await bot.send_message(..., "Начинаю аудит ...")
worker_notify_start ==
    /\ wpc = "notify_start"
    /\ \/ /\ Send(wid, "start")
          /\ Goto("fetch")
       \/ /\ StartFailed
          /\ UNCHANGED sent
    /\ UNCHANGED <<audit_requests, audit_queue, files, popped, processed, front>>

\* bot.get_file and bot.download_file; then, with no await between them, the
\* source file and the html report are written and HTML(...).write_pdf runs,
\* whose failure leaves report_final_path at the html report.
worker_fetch ==
    /\ wpc = "fetch"
    /\ \/ \E rendered \in BOOLEAN :
            /\ files' = [files EXCEPT ![wid] =
                            IF rendered THEN {"sol", "html", "pdf"} ELSE {"sol", "html"}]
            /\ wfinal' = FinalPath(rendered)
            /\ wpc' = "send_document"
            /\ UNCHANGED <<workers, wid>>
       \/ /\ Except
          /\ UNCHANGED files
    /\ UNCHANGED <<audit_requests, audit_queue, sent, popped, processed, front>>

\* await bot.send_document(user.telegram_id, InputFile(report_final_path), ...)
worker_send_document ==
    /\ wpc = "send_document"
    /\ \/ /\ Send(wid, wfinal)
          /\ Goto("commit_completed")
       \/ /\ Except
          /\ UNCHANGED sent
    /\ UNCHANGED <<audit_requests, audit_queue, files, popped, processed, front>>

\* audit_request.status = "completed"; await session.commit(); the removal
\* of the temporary files in its own try; then the success message is awaited.
worker_commit_completed ==
    /\ wpc = "commit_completed"
    /\ \/ /\ SetStatus(wid, "completed")
          /\ \E k \in 0..3 :
                /\ files' = [files EXCEPT ![wid] = @ \ Removed(k, wfinal)]
                /\ AfterCleanup(k)
       \/ /\ Except
          /\ UNCHANGED <<audit_requests, files>>
    /\ UNCHANGED <<audit_queue, sent, popped, processed, front>>

\* await bot.send_message(user.telegram_id, "Аудит завершен успешно"), still
\* inside the try block
worker_notify_success ==
    /\ wpc = "notify_success"
    /\ \/ /\ Send(wid, "success")
          /\ Loop
       \/ /\ Except
          /\ UNCHANGED sent
    /\ UNCHANGED <<audit_requests, audit_queue, files, popped, processed, front>>

\* except Exception: audit_request.status = "failed"; await session.commit()
worker_commit_failed ==
    /\ wpc = "commit_failed"
    /\ \/ /\ SetStatus(wid, "failed")
          /\ ExceptLedger(wid)
          /\ Goto("notify_failure")
       \/ /\ Dies
          /\ UNCHANGED <<audit_requests, users>>
    /\ UNCHANGED <<audit_queue, files, sent, popped, processed, tasks, nhandlers, limit,
                   started, pushed, initial, credited, debits>>

\* except Exception: ... await bot.send_message(..., "Произошла ошибка ...")
worker_notify_failure ==
    /\ wpc = "notify_failure"
    /\ \/ /\ Send(wid, "failure")
          /\ Loop
       \/ /\ Dies
          /\ UNCHANGED sent
    /\ UNCHANGED <<audit_requests, audit_queue, files, popped, processed, front>>

process_audit_queue ==
    \/ worker_lpop
    \/ worker_sleep
    \/ worker_get_request
    \/ worker_commit_processing
    \/ worker_get_user
    \/ worker_notify_start
    \/ worker_fetch
    \/ worker_send_document
    \/ worker_commit_completed
    \/ worker_notify_success
    \/ worker_commit_failed
    \/ worker_notify_failure

\* A start that puts the requests found processing back: queued again, their
\* ids pushed in id order.
start_worker_recover ==
    /\ ~started
    /\ started' = TRUE
    /\ workers' = workers + 1
    /\ wpc' = "lpop"
    /\ audit_requests' = [i \in DOMAIN audit_requests |->
                            IF audit_requests[i].status = "processing"
                            THEN [audit_requests[i] EXCEPT !.status = "queued"]
                            ELSE audit_requests[i]]
    /\ LET ids == SelectSeq([k \in 1..Len(audit_requests) |-> k],
                            LAMBDA k : audit_requests[k].status = "processing")
       IN  audit_queue' = audit_queue \o [j \in 1..Len(ids) |-> py_str(ids[j])]
    /\ UNCHANGED <<users, tasks, nhandlers, limit, wid, wfinal, files, sent, pushed,
                   popped, processed, initial, credited, debits>>

\* The program with its worker: process_audit_queue() put on the event loop
\* when polling starts, which src/main.py leaves out (see on_startup).
start_worker ==
    /\ ~started
    /\ started' = TRUE
    /\ workers' = workers + 1
    /\ wpc' = "lpop"
    /\ UNCHANGED <<users, audit_requests, audit_queue, tasks, nhandlers, limit, wid,
                   wfinal, files, sent, pushed, popped, processed, initial,
                   credited, debits>>

NextW == start_worker \/ Handlers \/ process_audit_queue

SpecW == Init /\ [][NextW]_vars

\* The process stops (a kill, a power cut, an exception out of start_polling)
\* at any await: every coroutine is gone with its session and its locals; what
\* was committed, the redis list and the files on disk stay.
crash ==
    /\ started
    /\ started' = FALSE
    /\ tasks' = EmptyBag
    /\ workers' = 0
    /\ wpc' = "none"
    /\ wid' = 0
    /\ wfinal' = "none"
    /\ UNCHANGED <<users, audit_requests, audit_queue, nhandlers, limit, files, sent,
                   pushed, popped, processed, initial, credited, debits>>

\* The program with its worker, stopped and started again any number of times.
NextC == start_worker \/ Handlers \/ process_audit_queue \/ crash

SpecC == Init /\ [][NextC]_vars

\* The program as started, its updates arriving one at a time: a handler is
\* entered only when the one before it has ended.
InitF ==
    /\ users \in [Users -> {NoUser} \cup {User(n) : n \in 0..MaxInit}]
    /\ audit_requests = <<>>
    /\ audit_queue = <<>>
    /\ tasks = EmptyBag
    /\ nhandlers = 0
    /\ limit = MaxSequence
    /\ started = FALSE
    /\ workers = 0
    /\ wpc = "none"
    /\ wid = 0
    /\ wfinal = "none"
    /\ files = [i \in Ids |-> {}]
    /\ sent = [i \in Ids |-> {}]
    /\ pushed = <<>>
    /\ popped = <<>>
    /\ processed = <<>>
    /\ initial = users
    /\ credited = [u \in Users |-> [free |-> 0, paid |-> 0, sum |-> 0]]
    /\ debits = [u \in Users |-> 0]

NextF ==
    \/ on_startup
    \/ \E u \in Users : tasks = EmptyBag /\ cmd_free(u)
    \/ \E u \in Users, args \in BuyArgs : tasks = EmptyBag /\ cmd_buy(u, args)
    \/ \E u \in Users, data \in PaymentData :
          tasks = EmptyBag /\ callback_check_payment(u, data)
    \/ \E u \in Users, f \in FileNames : tasks = EmptyBag /\ cmd_audit(u, f)
    \/ \E t \in Running : get_or_create_user(t)
    \/ \E t \in Running : get_or_create_user_commit(t)
    \/ \E t \in Running : cmd_free_commit(t)
    \/ \E t \in Running : callback_check_payment_select(t)
    \/ \E t \in Running : callback_check_payment_commit(t)
    \/ \E t \in Running : cmd_audit_commit(t)
    \/ \E t \in Running : cmd_audit_rpush(t)
    \/ \E t \in Running : reply(t)

SpecF == InitF /\ [][NextF]_vars

\* The worker starting on what an earlier run of the process left behind: the
\* tables and the redis list outlive the process.  A stored request's owner has
\* a row; the list may hold an id twice, the id of a request no longer queued,
\* or an id with no request.
StoredRequest ==
    [user_id : Users, status : {"queued", "processing", "completed", "failed"}]

StoredRequests ==
    UNION {[1..n -> StoredRequest] : n \in 0..MaxHandlers}

StoredQueues ==
    UNION {[1..n -> {py_str(i) : i \in Ids}] : n \in 1..MaxHandlers}

InitD ==
    /\ users \in [Users -> {NoUser} \cup {User(n) : n \in 0..MaxInit}]
    /\ audit_requests \in StoredRequests
    /\ \A i \in DOMAIN audit_requests : users[audit_requests[i].user_id].exists
    /\ audit_queue \in StoredQueues
    /\ tasks = EmptyBag
    /\ nhandlers = 0
    /\ limit = MaxHandlers
    /\ started = FALSE
    /\ workers = 0
    /\ wpc = "none"
    /\ wid = 0
    /\ wfinal = "none"
    /\ files = [i \in Ids |-> {}]
    /\ sent = [i \in Ids |-> {}]
    /\ pushed = <<>>
    /\ popped = <<>>
    /\ processed = <<>>
    /\ initial = users
    /\ credited = [u \in Users |-> [free |-> 0, paid |-> 0, sum |-> 0]]
    /\ debits = [u \in Users |-> 0]

\* The worker alone, with no update arriving.
NextD == start_worker \/ process_audit_queue

SpecD == InitD /\ [][NextD]_vars

\* The program as started, with the event loop running every coroutine that
\* can run.
FairSpec == Spec /\ WF_vars(Next)

\* ------------------------------------------------------------- properties
Terminal(status) == status \in {"completed", "failed"}

NoDup(q) == \A i, j \in 1..Len(q) : q[i] = q[j] => i = j

Count(q, x) == Cardinality({i \in 1..Len(q) : q[i] = x})

RequestsOf(u) == {i \in DOMAIN audit_requests : audit_requests[i].user_id = u}

\* The ids the queue holds, oldest first.
QueueIds == [i \in 1..Len(audit_queue) |-> py_int(audit_queue[i]).val]

Balance(u) == users[u].available_audits

\* C1: every change of a request's stored status is queued -> processing,
\* processing -> completed or processing -> failed; a completed or failed
\* request never changes status again.
C1_StatusTransitions ==
    [][\A i \in DOMAIN audit_requests :
          audit_requests'[i].status # audit_requests[i].status =>
              <<audit_requests[i].status, audit_requests'[i].status>> \in
                  { <<"queued", "processing">>, <<"processing", "completed">>,
                    <<"processing", "failed">> }]_vars

\* C2: a user who starts with 1 credit and receives no credit is debited by
\* at most one /audit submission and has at most one request, however the
\* submissions interleave.
C2_OneDebit ==
    \A u \in Users :
        (initial[u] = User(1) /\ credited[u].free = 0 /\ credited[u].paid = 0) =>
            /\ debits[u] <= 1
            /\ Cardinality(RequestsOf(u)) <= 1

\* C3: once all handlers have finished, the balance of a user who had only
\* submissions and payment confirmations is the initial balance plus the sum
\* of the confirmed payments minus the number of accepted submissions.
C3_NoLostUpdate ==
    tasks = EmptyBag =>
        \A u \in Users :
            credited[u].free = 0 =>
                Balance(u) = initial[u].available_audits + credited[u].sum - debits[u]

\* C4: every user's available_audits is >= 0 in every reachable state.
C4_NonNegative == \A u \in Users : Balance(u) >= 0

\* C5: a submission that reads a stored balance of 0 is answered no_credits
\* and neither that step nor the reply changes users, audit_requests or the
\* queue.
C5_NoCreditsNoMutation ==
    [][\A t \in Running :
          /\ (/\ t.kind = "audit"
              /\ users[t.u] = User(0)
              /\ get_or_create_user(t))
             => /\ tasks' = (tasks (-) SetToBag({t}))
                               (+) SetToBag({Reply(t, "no_credits")})
                /\ UNCHANGED <<users, audit_requests, audit_queue, debits>>
          /\ (t.msg = "no_credits" /\ reply(t))
             => UNCHANGED <<users, audit_requests, audit_queue, debits>>]_vars

C5_Witness ==
    \E t \in Running :
        /\ t.kind = "audit" /\ t.pc = "reply" /\ t.msg = "no_credits"
        /\ initial[t.u] = User(0)
        /\ users[t.u] = User(0)
        /\ RequestsOf(t.u) = {}

\* C6: an accepted submission has exactly one request of its own, created
\* queued, whose id was pushed exactly once; no id is in the queue twice.
C6_EnqueuedOnce ==
    /\ NoDup(audit_queue)
    /\ NoDup(pushed)
    /\ \A u \in Users : Cardinality(RequestsOf(u)) = debits[u]
    /\ \A i \in DOMAIN audit_requests :
          ~(\E k \in 1..Len(popped) : popped[k] = i) =>
              audit_requests[i].status = "queued"
    /\ \A t \in Running :
          (t.kind = "audit" /\ t.msg = "queued") =>
              /\ CopiesIn(t, tasks) = 1
              /\ t.rid \in RequestsOf(t.u)
              /\ Count(pushed, t.rid) = 1
              /\ Count(QueueIds, t.rid) + Count(popped, t.rid) = 1

C6_Witness ==
    /\ Len(audit_queue) = 2
    /\ \E t \in Running : t.kind = "audit" /\ t.msg = "queued" /\ t.rid = 2

\* C7 as claimed: the worker dequeues requests in the order of their creation
\* (the order of their ids).
C7_CreationOrder ==
    \A i, j \in 1..Len(popped) : i < j => popped[i] < popped[j]

\* C7 as amended: the worker dequeues ids in the order rpush stored them, and
\* dequeues an id only after the one before it was set to processing; what
\* lpop returns is the id rpush was given.
C7_QueueOrder ==
    /\ pushed = popped \o QueueIds
    /\ Len(processed) <= Len(popped)
    /\ Len(popped) <= Len(processed) + 1
    /\ processed = SubSeq(popped, 1, Len(processed))

C7_Witness ==
    /\ Len(processed) = 2
    /\ popped = pushed
    /\ audit_requests[processed[1]].user_id # audit_requests[processed[2]].user_id

\* C8: no exception of a job's user lookup, notifications, file transfer,
\* render or delivery ends the worker coroutine.
C8_WorkerSurvives ==
    [][(wpc \in {"get_user", "notify_start", "fetch", "send_document",
                 "notify_success", "notify_failure"}) => (wpc' # "dead")]_vars

\* C9: every request whose id was enqueued eventually reaches completed or
\* failed.
C9_EventuallyTerminal ==
    \A i \in Ids :
        (\E k \in 1..Len(pushed) : pushed[k] = i)
            ~> (i \in DOMAIN audit_requests /\ Terminal(audit_requests[i].status))

\* C10: once startup has run, exactly one worker loop is running.
C10_OneWorker == started => workers = 1


\* C11: no request is set to processing twice, and a dequeued id whose request
\* is missing or not queued is dropped: the step changes no stored request,
\* sends nothing, writes no file, and the worker is back at lpop (or ended by
\* an exception of the lookup).
C11_DequeueGuard ==
    [][/\ \A i \in Ids : Count(processed', i) <= 1
       /\ (wpc = "get_request" /\ ~DequeueGuard(wid) /\ wpc' # wpc) =>
              /\ UNCHANGED <<audit_requests, sent, files, processed>>
              /\ wpc' \in {"lpop", "dead"}]_vars

C11_Witness ==
    /\ Count(popped, 1) = 2
    /\ Count(processed, 1) = 1
    /\ audit_requests[1].status = "completed"
    /\ sent[1] = {"start", "pdf", "success"}
    /\ audit_queue = <<>>
    /\ wpc = "sleep"

\* C12: when write_pdf failed (no pdf among the job's files), what send_document
\* delivers is the html report; the commit that follows sets the request to
\* completed; and a request that got the html report and the success message is
\* completed and never got a pdf.
C12_RendererFallback ==
    [][/\ (wpc = "send_document" /\ "pdf" \notin files[wid]
                                 /\ wpc' = "commit_completed") =>
              sent'[wid] = sent[wid] \cup {"html"}
       /\ (wpc = "commit_completed" /\ wfinal = "html"
                                    /\ wpc' = "notify_success") =>
              audit_requests'[wid].status = "completed"
       /\ \A i \in DOMAIN audit_requests' :
              {"html", "success"} \subseteq sent'[i] =>
                 /\ audit_requests'[i].status = "completed"
                 /\ "pdf" \notin sent'[i]]_vars

C12_Witness ==
    \E i \in DOMAIN audit_requests :
       /\ audit_requests[i].status = "completed"
       /\ sent[i] = {"start", "html", "success"}

\* C13: when the fetch of the source or the delivery of the report raises, the
\* worker goes to the except block with the request still processing; the
\* commit there, when it returns, has stored failed; and the failure message,
\* when the send returns, has reached the owner of that failed request.
C13_FailurePath ==
    [][/\ (wpc \in {"fetch", "send_document"}
             /\ wpc' \notin {wpc, "send_document", "commit_completed"}) =>
              /\ wpc' = "commit_failed"
              /\ wid' = wid
              /\ audit_requests'[wid].status = "processing"
       /\ (wpc = "commit_failed" /\ audit_requests[wid].status = "processing"
                                 /\ wpc' \notin {wpc, "dead"}) =>
              /\ audit_requests'[wid].status = "failed"
              /\ wpc' = "notify_failure"
       /\ (wpc = "notify_failure" /\ wpc' \notin {wpc, "dead"}) =>
              /\ audit_requests'[wid].status = "failed"
              /\ "failure" \in sent'[wid]]_vars

C13_Witness ==
    \E i \in DOMAIN audit_requests :
       /\ audit_requests[i].status = "failed"
       /\ sent[i] = {"start", "failure"}
       /\ files[i] # {}
       /\ wpc = "lpop"

\* C14: no step of the worker changes any user's row: a job that ends failed
\* leaves its owner's balance where the submission put it.
C14_WorkerKeepsBalances ==
    [][process_audit_queue => UNCHANGED users]_vars

C14_Witness ==
    \E i \in DOMAIN audit_requests :
       /\ audit_requests[i].status = "failed"
       /\ "failure" \in sent[i]
       /\ initial[audit_requests[i].user_id].exists
       /\ Balance(audit_requests[i].user_id) =
             initial[audit_requests[i].user_id].available_audits - 1
       /\ debits[audit_requests[i].user_id] = 1

\* C15: the commit of an accepted submission takes exactly one credit off the
\* submitter's stored balance and leaves every other user's row alone, and
\* its rpush, when it returns, makes the queue one entry longer.
C15_SubmissionEffect ==
    [][\A t \in Running :
          /\ cmd_audit_commit(t) =>
                /\ users'[t.u].available_audits = users[t.u].available_audits - 1
                /\ \A v \in Users \ {t.u} : users'[v] = users[v]
          /\ (cmd_audit_rpush(t) /\ pushed' # pushed) =>
                Len(audit_queue') = Len(audit_queue) + 1]_vars

\* The file names of FileNames whose extension is .sol in some letter case.
C16_DotSol == { <<"a", ".", "s", "o", "l">>, <<"a", ".", "S", "O", "L">> }

\* C16: a submission whose file name does not end in the extension .sol, in
\* any letter case, is answered invalid_extension, and neither that step nor
\* the reply changes users, requests, the queue or the count of debits; a
\* submission whose file name does goes on to read the user.
C16_ExtensionCheck ==
    [][/\ \A u \in Users, f \in FileNames :
             cmd_audit(u, f) =>
                /\ tasks' = tasks (+) SetToBag({
                       IF f \in C16_DotSol
                       THEN Task("audit", u, "select", 0, 0, 0, "")
                       ELSE Task("audit", u, "reply", 0, 0, 0, "invalid_extension")})
                /\ UNCHANGED <<users, audit_requests, audit_queue, debits, files>>
       /\ \A t \in Running :
             (t.msg = "invalid_extension" /\ reply(t)) =>
                UNCHANGED <<users, audit_requests, audit_queue, debits, files>>]_vars

C16_Witness ==
    /\ \E t \in Running : t.pc = "reply" /\ t.msg = "invalid_extension"
    /\ \E t \in Running : t.kind = "audit" /\ t.pc = "select"
    /\ users = initial
    /\ audit_requests = <<>>
    /\ audit_queue = <<>>

\* C17: a payment callback whose quantity is not a positive integer changes
\* no user's row: no commit of such a callback writes a balance.
C17_NonPositiveRejected ==
    [][\A t \in Running :
          (t.kind = "payment" /\ t.q <= 0 /\ callback_check_payment_commit(t)) =>
             UNCHANGED users]_vars

\* C18: the send of the start message never aborts the job: whether it returns
\* or raises, the worker goes on to fetch the source.
C18_StartBestEffort ==
    [][(wpc = "notify_start" /\ wpc' # wpc) => wpc' = "fetch"]_vars

\* C19: a failed request to which no report was delivered, and whose failure
\* message is out, has none of its temporary files left.
C19_FailedFilesRemoved ==
    \A i \in DOMAIN audit_requests :
       (/\ audit_requests[i].status = "failed"
        /\ "failure" \in sent[i]
        /\ sent[i] \cap {"pdf", "html"} = {}) => files[i] = {}

\* C20: when the commit of completed has returned and a removal then failed
\* (a file of the job is left), the request is stored completed and the worker
\* goes on to the success message, not to the except block; a job with a file
\* left whose success message is out is completed.
C20_CleanupContained ==
    [][/\ (/\ wpc = "commit_completed"
           /\ audit_requests'[wid].status = "completed"
           /\ files'[wid] # {}) => wpc' = "notify_success"
       /\ \A i \in DOMAIN audit_requests' :
             (files'[i] # {} /\ "success" \in sent'[i]) =>
                audit_requests'[i].status = "completed"]_vars

C20_Witness ==
    \E i \in DOMAIN audit_requests :
       /\ audit_requests[i].status = "completed"
       /\ files[i] = {"html", "pdf"}
       /\ "success" \in sent[i]

\* C21: a request that got a message or a file from the worker is no longer
\* stored queued (processing was committed first); a request stored
\* processing that the running worker does not hold (the process stopped
\* during its job, or the worker ended) keeps that status in every step; and
\* the id of a processing request is not in the queue.
C21_ProcessingNotRecovered ==
    [][\A i \in DOMAIN audit_requests' :
          /\ (sent'[i] # {} \/ files'[i] # {}) =>
                audit_requests'[i].status # "queued"
          /\ (/\ i \in DOMAIN audit_requests
              /\ audit_requests[i].status = "processing"
              /\ (wid # i \/ wpc \in {"none", "dead"})) =>
                audit_requests'[i].status = "processing"
          /\ audit_requests'[i].status = "processing" =>
                Count(QueueIds', i) = 0]_vars

C21_Witness ==
    \E i \in DOMAIN audit_requests :
       /\ audit_requests[i].status = "processing"
       /\ "start" \in sent[i]
       /\ workers = 1
       /\ wpc = "sleep"
       /\ audit_queue = <<>>

\* C22: no user is given the free grant more than once, whatever sequence of
\* /free, /audit, /buy and payment confirmations is handled; stated for the
\* users no payment was confirmed for, whose balance only /free and /audit
\* have written.
C22_FreeOnce ==
    \A u \in Users : credited[u].paid = 0 => credited[u].free <= 1

\* C23: whenever no submission handler is between its commit and its rpush,
\* every request stored queued has its id in the queue or is the one the
\* worker holds.
C23_QueuedIsReachable ==
    (\A t \in Running : t.pc # "rpush") =>
        \A i \in DOMAIN audit_requests :
            audit_requests[i].status = "queued" =>
                Count(QueueIds, i) >= 1 \/ wid = i

\* C24: for a user whose row existed at the start and who was credited
\* nothing since, the credits gone from the stored balance are as many as the
\* requests stored for that user, in every state, a stopped process included.
C24_DebitsMatchRequests ==
    \A u \in Users :
        (initial[u].exists /\ credited[u].free = 0 /\ credited[u].paid = 0) =>
            initial[u].available_audits - Balance(u) = Cardinality(RequestsOf(u))

\* C25: a request stored completed has had its report (the pdf, or the html
\* in its place) delivered by send_document, and the worker is at the commit of
\* completed only with the report of this job delivered.
C25_CompletedAfterDelivery ==
    /\ \A i \in DOMAIN audit_requests :
          audit_requests[i].status = "completed" =>
              sent[i] \cap {"pdf", "html"} # {}
    /\ wpc = "commit_completed" => wfinal \in sent[wid]

C25_Witness ==
    /\ wpc = "notify_success"
    /\ audit_requests[wid].status = "completed"
    /\ sent[wid] = {"start", "pdf"}

====
